---- MODULE Spec2Model ----
(***************************************************************************)
(* VoiceCLI daemon: the outer trigger loop of main(), the double-tap       *)
(* detector InputHook::monitor, the per-tick recording loop with its       *)
(* pause / elapsed-time accounting, the Recorder control surface, the      *)
(* transcription hand-off and the clipboard protocol of Paster::paste.     *)
(*                                                                         *)
(* Time is an integer number of units of the steady clock.  All time       *)
(* arithmetic in the program is on differences, so the clock origin is     *)
(* placed at the construction of each session.                             *)
(***************************************************************************)
EXTENDS Integers, Naturals, Sequences, FiniteSets, TLC

(***************************************************************************)
(* Bounds of the model.                                                    *)
(***************************************************************************)
MaxClock == 6          \* latest steady-clock reading explored in a session
MaxSleep == 2          \* longest duration of the 100 ms sleep, in units
MaxStartDelay == 1     \* longest time rec.stop(); rec.start() takes on 'r'
MaxRecordMinutes == 2  \* largest config.maxRecordTime explored
MaxExtensions == 2     \* most '+' extensions explored in one session
VadTimeout == 1        \* config.vadTimeoutMs, in units
TapTimeout == 2        \* the 400 ms double-tap window, in units
MaxPollSleep == 2      \* longest duration of the 10 ms poll sleep, in units
MaxSettle == 1          \* longest duration of the settle sleep of paste
MaxPending == 3        \* most events queued for the status window at a tick
MaxColourSeconds == 61 \* longest remaining time the colour is computed for
MaxTextLen == 2        \* longest transcription / filter output explored
MaxEvents == 2         \* most X events delivered to the paste window per call
PasteDeadline == 2     \* the 2 s serve deadline, in units of the poll sleep

(***************************************************************************)
(* Scale of the time unit.                                                 *)
(***************************************************************************)
UnitsPerMinute == 2
SecondsPerUnit == 30
\* the resolution of a duration below the second
TicksPerSecond == 2

Variants == {"L", "R"}
Keys == {"+", "p", "r", "v", "s", "t", "a", "ESC", "x", "ETX", "z"}
NoKey == "none"

VARIABLES
  pc,                      \* position of the single foreground thread
  \* ---- InputHook::monitor locals and the X server
  m_running,               \* InputHook::m_running
  state,                   \* int state (0 Idle, 1, 2, 3 Triggered)
  triggeringKey,           \* KeyCode triggeringKey: "none", "L" or "R"
  keyMap,                  \* char keyMap[32], the two bits the code reads
  sinceRelease,            \* now - lastTime, saturated above TapTimeout
  xFailed,                 \* the X connection was lost during the wait
  \* ---- configuration
  maxRecordTime,           \* config.maxRecordTime, minutes
  postProcessCommand,      \* config.postProcessCommand: "" or "cmd"
  \* ---- session locals of main()
  clock,                   \* std::chrono::steady_clock
  now,
  startTime,
  maxDuration,
  lastSpeechTime,
  isAutoPaused,
  isPaused,
  isTimeout,
  totalPausedDuration,
  lastPauseStart,
  totalAutoPausedDuration,
  lastAutoPauseStart,
  elapsed,
  remaining,
  remainingFine,           \* remaining in clock ticks of 1 / TicksPerSecond s
  secondsLeft,
  color,
  key,
  modeAtKey,               \* the mode in which the latest key was handled
  finishAndTranscribe,
  appendSpace,
  useTerminalPaste,
  shouldExit,
  activeWin,               \* Window activeWin (0: none)
  winVisible,              \* StatusWindow::m_visible
  pending,                 \* events queued for the status window, unread
  rawText,                 \* what transcribe returned, kept until paste is called
  text,
  lastError,               \* the error logged in this loop iteration
  ppStatus,                \* how runPostProcess returned, kept like rawText
  \* ---- Recorder
  rec,                     \* the Recorder: its flags, m_encoder, m_device
  mainOps,                 \* the steps left of the Recorder method that the
                           \* foreground thread is executing
  cbPc,                    \* position of the capture thread in data_callback
  racing,                  \* the plain store to m_isRecording is under way
  \* ---- Paster::paste and the X server
  xcalls,                  \* the X requests paste has issued, in order
  xqueue,                  \* events pending for the paste window
  delivered,               \* events delivered to the paste window so far
  serveStart,              \* start
  served,
  ownerSeen,               \* what XGetSelectionOwner returned in paste
  taken,                   \* the latest event the serve loop took
  \* ---- the log and the history the properties are stated over
  timeoutEntries,          \* "Recording time limit reached." lines since
                           \* the last extension or restart
  hasRecElapsed,           \* a tick in mode Recording happened since (re)start
  recElapsed,              \* elapsed at the latest such tick
  rearmAt,                 \* the latest of: a sample above the threshold, the
                           \* session start or restart, a manual resume, an
                           \* extension out of a timeout
  prevTick                 \* mode and elapsed of the previous tick, when it was
                           \* paused and no key was read after it

monitorVars == <<m_running, state, triggeringKey, keyMap, sinceRelease, xFailed>>
sessionVars == <<clock, now, startTime, maxDuration, lastSpeechTime,
                 isAutoPaused, isPaused, isTimeout, totalPausedDuration,
                 lastPauseStart, totalAutoPausedDuration, lastAutoPauseStart,
                 elapsed, remaining, secondsLeft, color, key, modeAtKey,
                 finishAndTranscribe, appendSpace, useTerminalPaste,
                 shouldExit, rec, timeoutEntries, hasRecElapsed, recElapsed,
                 rearmAt, prevTick, remainingFine, pending>>
sessionButRec == <<clock, now, startTime, maxDuration, lastSpeechTime,
                   isAutoPaused, isPaused, isTimeout, totalPausedDuration,
                   lastPauseStart, totalAutoPausedDuration,
                   lastAutoPauseStart, elapsed, remaining, secondsLeft,
                   color, key, modeAtKey, finishAndTranscribe, appendSpace,
                   useTerminalPaste, shouldExit, timeoutEntries,
                   hasRecElapsed, recElapsed, rearmAt, prevTick,
                   remainingFine, pending>>
sessionButColor == <<clock, now, startTime, maxDuration, lastSpeechTime,
                     isAutoPaused, isPaused, isTimeout, totalPausedDuration,
                     lastPauseStart, totalAutoPausedDuration,
                     lastAutoPauseStart, elapsed, remaining, secondsLeft,
                     key, modeAtKey, finishAndTranscribe, appendSpace,
                     useTerminalPaste, shouldExit, rec, timeoutEntries,
                     hasRecElapsed, recElapsed, rearmAt, prevTick,
                     remainingFine, pending>>
sessionButInput == <<clock, now, startTime, maxDuration, lastSpeechTime,
                     isAutoPaused, isPaused, isTimeout, totalPausedDuration,
                     lastPauseStart, totalAutoPausedDuration,
                     lastAutoPauseStart, elapsed, remaining, secondsLeft,
                     color, finishAndTranscribe, appendSpace,
                     useTerminalPaste, shouldExit, rec, timeoutEntries,
                     hasRecElapsed, recElapsed, rearmAt, prevTick,
                     remainingFine, pending>>
handoffVars == <<activeWin, winVisible, rawText, text, lastError, ppStatus>>
pasteVars == <<xcalls, xqueue, delivered, serveStart, served, ownerSeen,
               taken>>
configVars == <<maxRecordTime, postProcessCommand>>
threadVars == <<mainOps, cbPc, racing>>
vars == <<pc, monitorVars, configVars, sessionVars, handoffVars, pasteVars,
          threadVars>>

(***************************************************************************)
(* Recorder                                                                *)
(***************************************************************************)
\* Recorder::Recorder
RecorderNew ==
  [isRecording |-> FALSE, isInitialized |-> FALSE, isWriting |-> TRUE,
   deviceStarted |-> FALSE, levelHigh |-> FALSE,
   encoderUp |-> FALSE, deviceUp |-> FALSE]

StartOutcomes == {"ok", "encoder", "deviceInit", "deviceStart"}

\* Recorder::start; outcome names the step that fails, "ok" when none does
RecStart(r, outcome) ==
  IF r.isRecording THEN r
  ELSE IF outcome = "encoder" THEN r
  ELSE IF outcome = "ok"
    THEN [r EXCEPT !.isWriting = TRUE, !.deviceStarted = TRUE,
                   !.isRecording = TRUE, !.isInitialized = TRUE,
                   !.encoderUp = TRUE, !.deviceUp = TRUE]
    ELSE [r EXCEPT !.isWriting = TRUE]

RecStartNeverThrows(r, outcome) == FALSE

\* Recorder::start throws std::runtime_error
RecStartThrows(r, outcome) == ~r.isRecording /\ outcome # "ok"

RecStopSkipped(r) == r

\* Recorder::stop
RecStop(r) ==
  [r EXCEPT !.isInitialized = FALSE, !.isRecording = FALSE,
            !.deviceStarted = FALSE, !.encoderUp = FALSE,
            !.deviceUp = FALSE]

\* Recorder::pause
RecPause(r) ==
  IF r.isInitialized /\ r.isRecording
    THEN [r EXCEPT !.deviceStarted = FALSE] ELSE r

RecResumeNever(r) == r

\* Recorder::resume
RecResume(r) ==
  IF r.isInitialized /\ r.isRecording
    THEN [r EXCEPT !.deviceStarted = TRUE] ELSE r

\* Recorder::setWriting
RecSetWriting(r, w) == [r EXCEPT !.isWriting = w]

\* Recorder::data_callback as seen through getCurrentLevel() > vadThreshold:
\* the level only moves while the device delivers buffers
RecLevels(r) ==
  IF r.deviceStarted /\ r.isRecording THEN BOOLEAN ELSE {r.levelHigh}

(***************************************************************************)
(* InputHook::monitor                                                      *)
(***************************************************************************)
KeyMaps == [Variants -> BOOLEAN]
NoKeysDown == [v \in Variants |-> FALSE]

\* case 0: the left variant is tested before the right one
IdleStep(km) ==
  IF km["L"] THEN <<1, "L">>
  ELSE IF km["R"] THEN <<1, "R">>
  ELSE <<0, triggeringKey>>

TapWindowNeverExpires(gap) == FALSE

\* case 2: now - lastTime > timeout
TapWindowExpired(gap) == gap > TapTimeout

ReleaseAssumed(km, k) == TRUE

\* the exit test of the wait-for-release loop of case 3
ReleaseSeen(km, k) == ~km[k]

\* time since lastTime as the next poll will read it
Saturate(gap) == IF gap > TapTimeout THEN TapTimeout + 1 ELSE gap

\* One iteration of while (m_running): XQueryKeymap, the switch, the sleep.
\* A lost X connection ends the process inside the Xlib call (the default
\* I/O error handler); XQueryKeymap has no failing return that monitor reads.
MonitorPoll ==
  /\ pc = "monitor"
  /\ m_running' = m_running
  /\ \E held \in KeyMaps, fail \in BOOLEAN, dt \in 1..MaxPollSleep :
       IF ~m_running
         THEN \* return false; main breaks out of while (!shouldExit)
              /\ pc' = "exited"
              /\ UNCHANGED <<state, triggeringKey, keyMap, sinceRelease,
                             xFailed>>
       ELSE IF fail
         THEN /\ xFailed' = TRUE
              /\ pc' = "xioExit"
              /\ UNCHANGED <<state, triggeringKey, keyMap, sinceRelease>>
         ELSE /\ keyMap' = held
              /\ xFailed' = xFailed
              /\ CASE state = 0 ->
                        /\ state' = IdleStep(held)[1]
                        /\ triggeringKey' = IdleStep(held)[2]
                        /\ sinceRelease' = 0
                        /\ pc' = pc
                   [] state = 1 ->
                        /\ state' = IF held[triggeringKey] THEN 1 ELSE 2
                        /\ sinceRelease' = IF held[triggeringKey] THEN 0
                                           ELSE Saturate(dt)
                        /\ UNCHANGED <<triggeringKey, pc>>
                   [] state = 2 ->
                        /\ state' = IF TapWindowExpired(sinceRelease) THEN 0
                                    ELSE IF held[triggeringKey] THEN 3 ELSE 2
                        /\ sinceRelease' = IF state' = 2
                                             THEN Saturate(sinceRelease + dt)
                                             ELSE 0
                        /\ UNCHANGED <<triggeringKey, pc>>
                   [] state = 3 ->
                        /\ pc' = "waitRelease"
                        /\ UNCHANGED <<state, triggeringKey, sinceRelease>>
  /\ UNCHANGED <<configVars, threadVars, sessionVars, handoffVars,
                 pasteVars>>

\* One iteration of the inner while (true) of case 3; return true on release.
WaitRelease ==
  /\ pc = "waitRelease"
  /\ \E held \in KeyMaps, fail \in BOOLEAN :
       IF fail
         THEN /\ xFailed' = TRUE
              /\ pc' = "xioExit"
              /\ UNCHANGED keyMap
         ELSE /\ keyMap' = held
              /\ xFailed' = xFailed
              /\ pc' = IF ReleaseSeen(held, triggeringKey) THEN "setup"
                       ELSE "waitRelease"
  /\ UNCHANGED <<m_running, state, triggeringKey, sinceRelease,
                 configVars, threadVars, sessionVars, handoffVars, pasteVars>>

(***************************************************************************)
(* Session accounting (locals of main())                                   *)
(***************************************************************************)
Minutes(m) == m * UnitsPerMinute

\* the mode shown in the header: timeout first, then manual, then auto
ModeOf(to, p, ap) ==
  IF to THEN "TimedOut"
  ELSE IF p THEN "ManualPaused"
  ELSE IF ap THEN "AutoPaused"
  ELSE "Recording"

Mode == ModeOf(isTimeout, isPaused, isAutoPaused)

CurrentPauseSessionSwapped(t, p, pStart) == IF p THEN pStart - t ELSE 0

\* currentPauseSession
CurrentPauseSession(t, p, pStart) == IF p THEN t - pStart ELSE 0

\* currentAutoPauseSession
CurrentAutoPauseSession(t, ap, aStart) == IF ap THEN t - aStart ELSE 0

\* elapsed = totalSinceStart - activePaused
ElapsedOf(t, start, p, pStart, tPaused, ap, aStart, tAuto) ==
  (t - start) - (tPaused + CurrentPauseSession(t, p, pStart)
                 + tAuto + CurrentAutoPauseSession(t, ap, aStart))

\* the same computation on the current values of the locals, at time t
ElapsedAt(t) ==
  ElapsedOf(t, startTime, isPaused, lastPauseStart, totalPausedDuration,
            isAutoPaused, lastAutoPauseStart, totalAutoPausedDuration)

RemainingAt(t) == maxDuration - ElapsedAt(t)

\* the slice added to totalAutoPausedDuration when voice resumes
VadResumeCredit(t) == t - lastPauseStart

SilenceDueLate(t, p, to, ap, speech) ==
  ~p /\ ~to /\ ~ap /\ (t - speech > VadTimeout + 1)

\* the silence test that enters auto-pause
SilenceDue(t, p, to, ap, speech) ==
  ~p /\ ~to /\ ~ap /\ (t - speech > VadTimeout)

TimeoutDueAgain(to, rem) == rem <= 0

TimeoutDueStrict(to, rem) == ~to /\ rem < 0

\* the session timeout test
TimeoutDue(to, rem) == ~to /\ rem <= 0

\* std::chrono::duration_cast<std::chrono::seconds>(d).count(): truncation
\* toward zero
DurationCastSeconds(d) ==
  IF d >= 0 THEN d \div TicksPerSecond ELSE 0 - ((0 - d) \div TicksPerSecond)

ColorOfNoWarning(to, p, ap, secs) ==
  IF to THEN "red"
  ELSE IF p \/ ap THEN "white"
  ELSE IF secs < 30 THEN "red"
  ELSE "white"

\* the UI colour
ColorOf(to, p, ap, secs) ==
  IF to THEN "red"
  ELSE IF p \/ ap THEN "white"
  ELSE IF secs < 30 THEN "red"
  ELSE IF secs < 60 THEN "yellow"
  ELSE "white"

ExtendCreditNone(t) == 0

\* the slice added to totalPausedDuration by '+' out of a timeout
ExtendCredit(t) == t - lastPauseStart

\* no paused tick is pending comparison
NoTick == [mode |-> "none", elapsed |-> 0]

\* values of the session locals outside a session
SessionIdle ==
  /\ clock' = 0 /\ now' = 0 /\ startTime' = 0 /\ maxDuration' = 0
  /\ lastSpeechTime' = 0 /\ isAutoPaused' = FALSE /\ isPaused' = FALSE
  /\ isTimeout' = FALSE /\ totalPausedDuration' = 0 /\ lastPauseStart' = 0
  /\ totalAutoPausedDuration' = 0 /\ lastAutoPauseStart' = 0
  /\ elapsed' = 0 /\ remaining' = 0 /\ secondsLeft' = 0 /\ color' = "none"
  /\ key' = NoKey /\ modeAtKey' = "none" /\ finishAndTranscribe' = FALSE /\ appendSpace' = TRUE
  /\ useTerminalPaste' = FALSE /\ rec' = RecorderNew
  /\ timeoutEntries' = 0 /\ hasRecElapsed' = FALSE /\ recElapsed' = 0
  /\ rearmAt' = 0 /\ prevTick' = NoTick
  /\ remainingFine' = 0 /\ pending' = <<>>

\* the next call of monitor: m_running, state, triggeringKey; keyMap is
\* written by XQueryKeymap before it is read
MonitorEnter ==
  /\ m_running' = TRUE
  /\ state' = 0 /\ triggeringKey' = "none" /\ keyMap' = NoKeysDown
  /\ sinceRelease' = 0 /\ xFailed' = xFailed

\* values of activeWin, win, rawText, text outside a session; err is the
\* error this iteration logged
HandoffIdle(err) ==
  /\ activeWin' = 0 /\ winVisible' = FALSE /\ rawText' = <<>>
  /\ text' = <<>> /\ lastError' = err /\ ppStatus' = "none"

\* no Paster exists
NoEvent == [type |-> "none", selection |-> "none", target |-> "none"]

\* values of the paste state outside a call of paste
PasteIdle ==
  /\ xcalls' = <<>> /\ xqueue' = <<>> /\ delivered' = 0
  /\ serveStart' = 0 /\ served' = FALSE
  /\ ownerSeen' = "none" /\ taken' = NoEvent

LoopConditionAlways(exit) == TRUE

LoopConditionNever(exit) == FALSE

\* while (!shouldExit)
LoopCondition(exit) == ~exit

\* the id of the status window, distinct from every window of the user
StatusWindowId == 2

\* what getCurrentFocus can return: the window with the input focus, 0 on
\* failure; StatusWindow::show gives the focus to the status window
FocusSeen(shown) == IF shown THEN {StatusWindowId} ELSE 0..1

\* the end of one iteration of while (!shouldExit)
LoopBack(exit, err) ==
  /\ pc' = IF LoopCondition(exit) THEN "monitor" ELSE "exited"
  /\ shouldExit' = exit
  /\ SessionIdle
  /\ HandoffIdle(err)
  /\ PasteIdle
  /\ MonitorEnter
  /\ UNCHANGED <<configVars, threadVars>>

\* Session setup after the trigger: rec.start and the session locals
Setup ==
  /\ pc = "setup"
  /\ \E display \in BOOLEAN, outcome \in StartOutcomes :
       IF ~display
         THEN \* StatusWindow::StatusWindow throws outside any try
              /\ pc' = "terminated"
              /\ UNCHANGED <<monitorVars, configVars, threadVars, sessionVars,
                             handoffVars, pasteVars>>
       ELSE IF RecStartThrows(RecorderNew, outcome)
         THEN LoopBack(FALSE, "start")
         ELSE /\ pc' = "tick"
              /\ rec' = RecStart(RecorderNew, outcome)
              /\ clock' = 0 /\ now' = 0
              /\ startTime' = 0
              /\ maxDuration' = Minutes(maxRecordTime)
              /\ lastSpeechTime' = 0
              /\ isAutoPaused' = FALSE
              /\ finishAndTranscribe' = FALSE
              /\ appendSpace' = TRUE
              /\ useTerminalPaste' = FALSE
              /\ isPaused' = FALSE
              /\ isTimeout' = FALSE
              /\ totalPausedDuration' = 0
              /\ lastPauseStart' = 0
              /\ totalAutoPausedDuration' = 0
              /\ lastAutoPauseStart' = 0
              /\ timeoutEntries' = 0 /\ hasRecElapsed' = FALSE
              /\ rearmAt' = 0 /\ prevTick' = NoTick
              /\ MonitorEnter
              /\ \E w \in FocusSeen(winVisible) : activeWin' = w
              /\ winVisible' = TRUE
              /\ lastError' = "none"
              /\ pending' = <<>>
              /\ UNCHANGED <<elapsed, remaining, remainingFine, secondsLeft,
                             color, key,
                             modeAtKey, shouldExit, recElapsed, rawText,
                             text, ppStatus, configVars, threadVars, pasteVars>>

\* The first half of one iteration of the recording loop: sample the clock
\* and the level, VAD, elapsed / remaining, the session timeout, the colour.
Tick ==
  /\ pc = "tick"
  /\ \E lv \in RecLevels(rec) :
       LET t       == clock
           resume  == lv /\ isAutoPaused
           speech1 == IF lv THEN t ELSE lastSpeechTime
           ap1     == IF resume THEN FALSE ELSE isAutoPaused
           tAuto1  == IF resume THEN totalAutoPausedDuration
                                     + VadResumeCredit(t)
                      ELSE totalAutoPausedDuration
           rec0    == [rec EXCEPT !.levelHigh = lv]
           rec1    == IF resume THEN RecSetWriting(rec0, TRUE) ELSE rec0
           silence == SilenceDue(t, isPaused, isTimeout, ap1, speech1)
           ap2     == IF silence THEN TRUE ELSE ap1
           rec2    == IF silence THEN RecSetWriting(rec1, FALSE) ELSE rec1
           aStart2 == IF silence THEN t ELSE lastAutoPauseStart
           el      == ElapsedOf(t, startTime, isPaused, lastPauseStart,
                                totalPausedDuration, ap2, aStart2, tAuto1)
           rem     == maxDuration - el
           due     == TimeoutDue(isTimeout, rem)
           to3     == IF due THEN TRUE ELSE isTimeout
           p3      == IF due THEN TRUE ELSE isPaused
           fine    == rem * SecondsPerUnit * TicksPerSecond
           secs    == IF due THEN 0 ELSE DurationCastSeconds(fine)
       IN  /\ now' = t
           /\ lastSpeechTime' = speech1
           /\ isAutoPaused' = ap2
           /\ totalAutoPausedDuration' = tAuto1
           /\ lastAutoPauseStart' = aStart2
           /\ elapsed' = el
           /\ remaining' = rem
           /\ remainingFine' = fine
           /\ secondsLeft' = secs
           /\ rec' = IF due THEN RecPause(rec2) ELSE rec2
           /\ isTimeout' = to3
           /\ isPaused' = p3
           /\ lastPauseStart' = IF due THEN t ELSE lastPauseStart
           /\ color' = ColorOf(to3, p3, ap2, secs)
           /\ timeoutEntries' = IF due THEN timeoutEntries + 1
                                ELSE timeoutEntries
           /\ hasRecElapsed' = (hasRecElapsed
                                \/ ModeOf(to3, p3, ap2) = "Recording")
           /\ recElapsed' = IF ModeOf(to3, p3, ap2) = "Recording" THEN el
                            ELSE recElapsed
           /\ rearmAt' = IF lv THEN t ELSE rearmAt
  /\ prevTick' = NoTick
  /\ pc' = "input"
  /\ key' = NoKey
  /\ modeAtKey' = "none"
  /\ UNCHANGED <<clock, startTime, maxDuration, totalPausedDuration,
                 finishAndTranscribe, appendSpace, useTerminalPaste,
                 shouldExit, pending, monitorVars, configVars, threadVars, handoffVars,
                 pasteVars>>

\* key == '+'
KeyExtend ==
  /\ maxDuration' = maxDuration + Minutes(maxRecordTime)
  /\ IF isTimeout
       THEN /\ isTimeout' = FALSE
            /\ totalPausedDuration' = totalPausedDuration + ExtendCredit(now)
            /\ isPaused' = FALSE
            /\ rec' = RecResume(rec)
            /\ lastSpeechTime' = now
            /\ rearmAt' = now
       ELSE UNCHANGED <<isTimeout, totalPausedDuration, isPaused, rec,
                        lastSpeechTime, rearmAt>>
  /\ timeoutEntries' = 0
  /\ UNCHANGED <<startTime, isAutoPaused, lastPauseStart,
                 totalAutoPausedDuration, lastAutoPauseStart, hasRecElapsed,
                 recElapsed>>

PauseIgnoredNever(to) == FALSE

\* key == 'p': if (isTimeout) { }
PauseIgnored(to) == to

AutoPauseSliceFromPause(t) == t - lastPauseStart

\* the slice added to totalAutoPausedDuration when 'p' ends an auto-pause
AutoPauseSlice(t) == t - lastAutoPauseStart

\* key == 'p'
KeyPause ==
  /\ IF PauseIgnored(isTimeout)
       THEN UNCHANGED <<totalPausedDuration, isPaused, rec, lastSpeechTime,
                        isAutoPaused, totalAutoPausedDuration,
                        lastPauseStart, rearmAt>>
       ELSE IF isPaused
         THEN /\ totalPausedDuration' = totalPausedDuration
                                        + (now - lastPauseStart)
              /\ isPaused' = FALSE
              /\ rec' = RecSetWriting(RecResume(rec), TRUE)
              /\ lastSpeechTime' = now
              /\ rearmAt' = now
              /\ UNCHANGED <<isAutoPaused, totalAutoPausedDuration,
                             lastPauseStart>>
         ELSE /\ isAutoPaused' = FALSE
              /\ totalAutoPausedDuration' =
                   IF isAutoPaused
                     THEN totalAutoPausedDuration + AutoPauseSlice(now)
                     ELSE totalAutoPausedDuration
              /\ lastPauseStart' = now
              /\ isPaused' = TRUE
              /\ rec' = RecPause(rec)
              /\ UNCHANGED <<totalPausedDuration, lastSpeechTime, rearmAt>>
  /\ UNCHANGED <<startTime, maxDuration, isTimeout, lastAutoPauseStart,
                 timeoutEntries, hasRecElapsed, recElapsed>>

\* key == 'r', rec.start succeeded; restartAt is the clock read for startTime
KeyRestart(restartAt) ==
  /\ rec' = RecStart(RecStop(rec), "ok")
  /\ startTime' = restartAt
  /\ maxDuration' = Minutes(maxRecordTime)
  /\ totalPausedDuration' = 0
  /\ isPaused' = FALSE
  /\ isTimeout' = FALSE
  /\ lastSpeechTime' = now
  /\ timeoutEntries' = 0
  /\ hasRecElapsed' = FALSE
  /\ rearmAt' = restartAt
  /\ UNCHANGED <<isAutoPaused, lastPauseStart, totalAutoPausedDuration,
                 lastAutoPauseStart, recElapsed>>

accountingVars == <<startTime, maxDuration, lastSpeechTime, isAutoPaused,
                    isPaused, isTimeout, totalPausedDuration, lastPauseStart,
                    totalAutoPausedDuration, lastAutoPauseStart, rec,
                    timeoutEntries, hasRecElapsed, recElapsed, rearmAt>>

\* the accounting locals are not read once the recording loop is left
LoopExit ==
  /\ clock' = 0 /\ startTime' = 0 /\ maxDuration' = 0
  /\ lastSpeechTime' = 0 /\ isAutoPaused' = FALSE
  /\ isPaused' = FALSE /\ isTimeout' = FALSE
  /\ totalPausedDuration' = 0 /\ lastPauseStart' = 0
  /\ totalAutoPausedDuration' = 0 /\ lastAutoPauseStart' = 0
  /\ timeoutEntries' = 0 /\ hasRecElapsed' = FALSE /\ recElapsed' = 0
  /\ rearmAt' = 0
  /\ now' = 0 /\ elapsed' = 0 /\ remaining' = 0 /\ secondsLeft' = 0
  /\ remainingFine' = 0
  /\ color' = "white"

\* now, elapsed, remaining, secondsLeft are locals of one loop iteration
IterationEnd ==
  /\ now' = 0 /\ elapsed' = 0 /\ remaining' = 0 /\ secondsLeft' = 0
  /\ remainingFine' = 0
  /\ color' = color

(***************************************************************************)
(* StatusWindow::checkForInput                                             *)
(***************************************************************************)
\* a KeyPress for which XLookupString returns the one character c
KeyPress(c) == [type |-> "KeyPress", chars |-> <<c>>]

\* a KeyPress for which XLookupString returns no character (a modifier)
ModifierPress == [type |-> "KeyPress", chars |-> <<>>]

Expose == [type |-> "Expose", chars |-> <<>>]

\* what reaches the status window between two calls of checkForInput in a
\* session: nothing, a redraw, or one key
KeyArrivals == {<<>>, <<Expose>>} \cup {<<KeyPress(c)>> : c \in Keys}

\* while (XPending(m_display) > 0): every queued event is read; each
\* KeyPress with one character overwrites outKey
RECURSIVE Drain(_, _, _)
Drain(q, found, k) ==
  IF q = <<>> THEN [found |-> found, key |-> k, rest |-> <<>>]
  ELSE LET e   == Head(q)
           hit == e.type = "KeyPress" /\ Len(e.chars) = 1
       IN  Drain(Tail(q), found \/ hit, IF hit THEN e.chars[1] ELSE k)

CheckForInput(visible, q) ==
  IF ~visible THEN [found |-> FALSE, key |-> NoKey, rest |-> q]
  ELSE Drain(q, FALSE, NoKey)

\* The second half of the iteration: checkForInput, the key dispatch and
\* the 100 ms sleep.
HandleKey ==
  /\ pc = "input"
  /\ \E arrived \in KeyArrivals :
       LET got == CheckForInput(winVisible, pending \o arrived)
           k   == IF got.found THEN got.key ELSE NoKey
       IN
       /\ pending' = got.rest
       /\ key' = k
       /\ modeAtKey' = IF k = NoKey THEN "none" ELSE Mode
       /\ prevTick' = IF k = NoKey /\ Mode # "Recording"
                        THEN [mode |-> Mode, elapsed |-> elapsed]
                        ELSE NoTick
       /\ CASE k = "+" ->
                 \E dt \in 1..MaxSleep :
                   /\ maxDuration
                        < Minutes(maxRecordTime) * (1 + MaxExtensions)
                   /\ clock + dt <= MaxClock
                   /\ KeyExtend
                   /\ clock' = clock + dt
                   /\ pc' = "tick"
                   /\ UNCHANGED <<finishAndTranscribe, appendSpace,
                                  useTerminalPaste, shouldExit>>
            [] k = "p" ->
                 \E dt \in 1..MaxSleep :
                   /\ clock + dt <= MaxClock
                   /\ KeyPause
                   /\ clock' = clock + dt
                   /\ pc' = "tick"
                   /\ UNCHANGED <<finishAndTranscribe, appendSpace,
                                  useTerminalPaste, shouldExit>>
            [] k = "r" ->
                 \E outcome \in StartOutcomes :
                   IF RecStartThrows(RecStop(rec), outcome)
                     THEN /\ rec' = RecStart(RecStop(rec), outcome)
                          /\ pc' = "terminated"
                          /\ UNCHANGED <<finishAndTranscribe, appendSpace,
                                         useTerminalPaste, shouldExit>>
                     ELSE \E dt \in 1..MaxSleep, rd \in 0..MaxStartDelay :
                            /\ clock + rd + dt <= MaxClock
                            /\ KeyRestart(clock + rd)
                            /\ clock' = clock + rd + dt
                            /\ pc' = "tick"
                            /\ UNCHANGED <<finishAndTranscribe, appendSpace,
                                           useTerminalPaste, shouldExit>>
            [] k \in {"v", "s", "t"} ->
                 /\ finishAndTranscribe' = TRUE
                 /\ appendSpace' = (k \in {"v", "t"})
                 /\ useTerminalPaste' = (k = "t")
                 /\ pc' = "finalize"
                 /\ UNCHANGED <<rec, shouldExit>>
            [] k \in {"a", "ESC"} ->
                 /\ pc' = "finalize"
                 /\ UNCHANGED <<rec, finishAndTranscribe, appendSpace,
                                useTerminalPaste, shouldExit>>
            [] k \in {"x", "ETX"} ->
                 /\ shouldExit' = TRUE
                 /\ pc' = "finalize"
                 /\ UNCHANGED <<rec, finishAndTranscribe, appendSpace,
                                useTerminalPaste>>
            [] k \in {"z", NoKey} ->
                 \E dt \in 1..MaxSleep :
                   /\ clock + dt <= MaxClock
                   /\ clock' = clock + dt
                   /\ pc' = "tick"
                   /\ UNCHANGED <<accountingVars, finishAndTranscribe,
                                  appendSpace, useTerminalPaste, shouldExit>>
  /\ IF pc' = "tick" THEN IterationEnd ELSE LoopExit
  /\ UNCHANGED <<monitorVars, configVars, threadVars, handoffVars, pasteVars>>

ShouldTranscribeAlways(finish) == TRUE

\* line 563: transcription is attempted only after a finishing key
ShouldTranscribe(finish) == finish

\* After the recording loop: rec.stop(), then transcribe or loop back
Finalize ==
  /\ pc = "finalize"
  /\ IF ShouldTranscribe(finishAndTranscribe)
       THEN /\ pc' = "transcribe"
            /\ rec' = RecStop(rec)
            /\ modeAtKey' = "none"
            /\ UNCHANGED <<clock, startTime, maxDuration, lastSpeechTime,
                           isAutoPaused, isPaused, isTimeout,
                           totalPausedDuration, lastPauseStart,
                           totalAutoPausedDuration, lastAutoPauseStart,
                           timeoutEntries, hasRecElapsed, recElapsed, now,
                           elapsed, remaining, secondsLeft, color, rearmAt,
                           prevTick, remainingFine, pending>>
            /\ UNCHANGED <<key, finishAndTranscribe, appendSpace,
                           useTerminalPaste, shouldExit, monitorVars,
                           configVars, threadVars, handoffVars, pasteVars>>
       ELSE LoopBack(shouldExit, lastError)

(***************************************************************************)
(* Text: strings are sequences of characters; " " stands for the           *)
(* whitespace class " \t\n\r" that trim strips.                            *)
(***************************************************************************)
Chars == {"a", " "}
Texts == UNION {[1..n -> Chars] : n \in 0..MaxTextLen}
IsSpace(c) == c = " "

\* s.find_first_not_of(" \t\n\r"); 0 stands for npos
FindFirstNotOf(s) ==
  IF \E i \in 1..Len(s) : ~IsSpace(s[i])
    THEN CHOOSE i \in 1..Len(s) :
           ~IsSpace(s[i]) /\ \A j \in 1..(i - 1) : IsSpace(s[j])
    ELSE 0

\* s.find_last_not_of(" \t\n\r")
FindLastNotOf(s) ==
  IF \E i \in 1..Len(s) : ~IsSpace(s[i])
    THEN CHOOSE i \in 1..Len(s) :
           ~IsSpace(s[i]) /\ \A j \in (i + 1)..Len(s) : IsSpace(s[j])
    ELSE 0

\* trim
Trim(s) ==
  IF FindFirstNotOf(s) = 0 THEN <<>>
  ELSE SubSeq(s, FindFirstNotOf(s), FindLastNotOf(s))

\* "commandFails": the command is launched and exits with a failure status
PostProcessOutcomes == {"ran", "writeFails", "popenFails", "commandFails"}

\* runPostProcess(cmd, input): output is what the command printed; the status
\* returned by pclose is not read
RunPostProcess(cmd, input, outcome, output) ==
  IF cmd = "" THEN input
  ELSE IF outcome = "writeFails" THEN input
  ELSE IF outcome = "popenFails" THEN input
  ELSE Trim(output)

WithSpaceAlways(t, append) == t \o <<" ">>

\* if (appendSpace) text += " "
WithSpace(t, append) == IF append THEN t \o <<" ">> ELSE t

TranscribeOutcomes == {"text", "error"}

HasTextLong(t) == Len(t) > 1

\* if (!text.empty())
HasText(t) == t # <<>>

\* Transcriber, transcribe, trim, the optional post-process, the empty-text
\* test, the trailing space and win.close(); an exception is caught and logged
Transcribe ==
  /\ pc = "transcribe"
  /\ \E outcome \in TranscribeOutcomes :
       IF outcome = "error"
         THEN /\ pc' = "errorShown"
              /\ lastError' = "transcribe"
              /\ UNCHANGED <<activeWin, winVisible, rawText, text, ppStatus>>
         ELSE \E raw \in Texts, po \in PostProcessOutcomes,
                 ppOutput \in Texts :
                LET trimmed   == Trim(raw)
                    filtered  == postProcessCommand # ""
                    processed == IF filtered
                                   THEN RunPostProcess(postProcessCommand,
                                          trimmed, po, ppOutput)
                                   ELSE trimmed
                IN  /\ rawText' = raw
                    /\ ppStatus' = IF filtered THEN po ELSE "none"
                    /\ IF HasText(processed)
                         THEN /\ pc' = "paste"
                              /\ text' = WithSpace(processed, appendSpace)
                              /\ winVisible' = FALSE
                         ELSE /\ pc' = "noSpeech"
                              /\ text' = processed
                              /\ winVisible' = winVisible
                    /\ UNCHANGED <<activeWin, lastError>>
  /\ UNCHANGED <<sessionVars, monitorVars, configVars, threadVars, pasteVars>>

\* the sleep after "No speech detected." or "Error during transcription!",
\* then the end of the loop body
DisplayInterval ==
  /\ pc \in {"noSpeech", "errorShown"}
  /\ LoopBack(shouldExit, lastError)

(***************************************************************************)
(* Paster::paste                                                           *)
(***************************************************************************)
Targets == {"TARGETS", "UTF8_STRING", "STRING", "OTHER"}

SelectionRequest(sel, tgt) ==
  [type |-> "SelectionRequest", selection |-> sel, target |-> tgt]

SelectionClear ==
  [type |-> "SelectionClear", selection |-> "CLIPBOARD", target |-> "none"]

\* what other clients can make the X server send to the paste window
Events ==
  {SelectionRequest("CLIPBOARD", tgt) : tgt \in Targets}
    \cup {SelectionRequest("PRIMARY", "UTF8_STRING"), SelectionClear}

Arrivals == {<<>>} \cup {<<e>> : e \in Events}

TextEmptyNever(t) == FALSE

\* if (text.empty()) return;
TextEmpty(t) == t = <<>>

OwnershipAssumed(owner) == TRUE

\* XGetSelectionOwner(m_display, clipboard) == m_window
OwnershipConfirmed(owner) == owner = "self"

FocusCallsNone(w) == <<>>

\* XSetInputFocus when a target window was captured
FocusCalls(w) ==
  IF w # 0 THEN <<[call |-> "SetInputFocus", window |-> w]>> ELSE <<>>

FakeKey(k, down) == [call |-> "FakeKey", key |-> k, down |-> down]

ChordShiftHeld(useShift) ==
  <<FakeKey("Ctrl", TRUE)>>
    \o (IF useShift THEN <<FakeKey("Shift", TRUE)>> ELSE <<>>)
    \o <<FakeKey("V", TRUE), FakeKey("V", FALSE), FakeKey("Ctrl", FALSE)>>

\* the XTestFakeKeyEvent sequence
Chord(useShift) ==
  <<FakeKey("Ctrl", TRUE)>>
    \o (IF useShift THEN <<FakeKey("Shift", TRUE)>> ELSE <<>>)
    \o <<FakeKey("V", TRUE), FakeKey("V", FALSE)>>
    \o (IF useShift THEN <<FakeKey("Shift", FALSE)>> ELSE <<>>)
    \o <<FakeKey("Ctrl", FALSE)>>

\* the position of the first queued event of a type, 0 when there is none
FirstOfType(q, ty) ==
  IF \E i \in 1..Len(q) : q[i].type = ty
    THEN CHOOSE i \in 1..Len(q) :
           q[i].type = ty /\ \A j \in 1..(i - 1) : q[j].type # ty
    ELSE 0

\* XCheckTypedWindowEvent(SelectionRequest) || XCheckTypedWindowEvent(
\* SelectionClear): the position of the event the loop takes, 0 for none
TakenEvent(q) ==
  IF FirstOfType(q, "SelectionRequest") # 0
    THEN FirstOfType(q, "SelectionRequest")
    ELSE FirstOfType(q, "SelectionClear")

RemoveAt(q, i) == SubSeq(q, 1, i - 1) \o SubSeq(q, i + 1, Len(q))

IsAnyTarget(tgt) == TRUE

\* a genuine data request
IsDataTarget(tgt) == tgt \in {"UTF8_STRING", "STRING"}

AnswerRefused(e, txt) ==
  [call |-> "Answer", target |-> e.target, property |-> "None",
   type |-> "none", data |-> <<>>]

\* XChangeProperty and the SelectionNotify sent for a CLIPBOARD request
Answer(e, txt) ==
  IF e.target = "TARGETS"
    THEN [call |-> "Answer", target |-> e.target, property |-> "set",
          type |-> "ATOM", data |-> <<"UTF8_STRING", "STRING">>]
  ELSE IF IsDataTarget(e.target)
    THEN [call |-> "Answer", target |-> e.target, property |-> "set",
          type |-> e.target, data |-> txt]
  ELSE [call |-> "Answer", target |-> e.target, property |-> "None",
        type |-> "none", data |-> <<>>]

DeadlineLate(t, start) == ~(t - start < PasteDeadline + MaxPollSleep + 1)

\* the negation of the loop test now - start < 2 s
DeadlinePassed(t, start) == ~(t - start < PasteDeadline)

sessionButClock == <<now, startTime, maxDuration, lastSpeechTime,
                     isAutoPaused, isPaused, isTimeout, totalPausedDuration,
                     lastPauseStart, totalAutoPausedDuration,
                     lastAutoPauseStart, elapsed, remaining, secondsLeft,
                     color, key, modeAtKey, finishAndTranscribe, appendSpace,
                     useTerminalPaste, shouldExit, rec, timeoutEntries,
                     hasRecElapsed, recElapsed, rearmAt, prevTick,
                     remainingFine, pending>>

\* Paster paster; paster.paste(...) up to the start of the serve loop
PasteBegin ==
  /\ pc = "paste"
  /\ \E display \in BOOLEAN, owner \in {"self", "other"},
        settle \in 1..MaxSettle, arrival \in Arrivals :
       IF ~display
         THEN \* Paster::Paster throws; caught by the catch of main
              /\ pc' = "errorShown"
              /\ lastError' = "transcribe"
              /\ UNCHANGED <<sessionVars, pasteVars>>
       ELSE IF TextEmpty(text)
         THEN /\ pc' = "pasted"
              /\ UNCHANGED <<sessionVars, pasteVars>>
       ELSE IF ~OwnershipConfirmed(owner)
         THEN /\ pc' = "pasted"
              /\ xcalls' = <<[call |-> "SetSelectionOwner"]>>
              /\ ownerSeen' = owner
              /\ UNCHANGED <<sessionVars, xqueue, delivered, serveStart,
                             served, taken>>
       ELSE /\ pc' = "serve"
            /\ ownerSeen' = owner
            /\ taken' = NoEvent
            /\ xcalls' = <<[call |-> "SetSelectionOwner"]>>
                           \o FocusCalls(activeWin)
                           \o Chord(useTerminalPaste)
            /\ clock' = settle
            /\ serveStart' = settle
            /\ served' = FALSE
            /\ xqueue' = arrival
            /\ delivered' = Len(arrival)
            /\ UNCHANGED sessionButClock
  /\ pc' # "errorShown" => lastError' = lastError
  /\ rawText' = <<>>
  /\ ppStatus' = "none"
  /\ UNCHANGED <<monitorVars, configVars, threadVars, activeWin, winVisible, text>>

\* One test of the serve loop and, when it passes, one iteration
PasteServe ==
  /\ pc = "serve"
  /\ \E arrival \in Arrivals :
       /\ delivered + Len(arrival) <= MaxEvents
       /\ delivered' = delivered + Len(arrival)
       /\ LET q == xqueue \o arrival
              i == TakenEvent(q)
          IN  IF DeadlinePassed(clock, serveStart)
                THEN /\ pc' = "pasted"
                     /\ xqueue' = q
                     /\ UNCHANGED <<xcalls, served, clock, taken>>
              ELSE IF i = 0
                THEN /\ \E dt \in 1..MaxPollSleep : clock' = clock + dt
                     /\ pc' = "serve"
                     /\ xqueue' = q
                     /\ UNCHANGED <<xcalls, served, taken>>
              ELSE /\ xqueue' = RemoveAt(q, i)
                   /\ taken' = q[i]
                   /\ clock' = clock
                   /\ IF q[i].type = "SelectionRequest"
                        THEN IF q[i].selection = "CLIPBOARD"
                               THEN /\ xcalls' = Append(xcalls,
                                                        Answer(q[i], text))
                                    /\ served' = IsDataTarget(q[i].target)
                                    /\ pc' = IF IsDataTarget(q[i].target)
                                               THEN "pasted" ELSE "serve"
                               ELSE /\ pc' = "serve"
                                    /\ UNCHANGED <<xcalls, served>>
                        ELSE /\ pc' = "pasted"
                             /\ UNCHANGED <<xcalls, served>>
  /\ UNCHANGED <<serveStart, ownerSeen, sessionButClock, monitorVars,
                 configVars, threadVars, handoffVars>>

\* paste has returned; the loop body ends
PasteReturn ==
  /\ pc = "pasted"
  /\ LoopBack(shouldExit, lastError)

Init ==
  /\ pc = "monitor"
  /\ m_running = TRUE
  /\ state = 0 /\ triggeringKey = "none" /\ keyMap = NoKeysDown
  /\ sinceRelease = 0 /\ xFailed = FALSE
  /\ maxRecordTime \in 1..MaxRecordMinutes
  /\ postProcessCommand \in {"", "cmd"}
  /\ activeWin = 0 /\ winVisible = FALSE /\ rawText = <<>> /\ text = <<>>
  /\ lastError = "none" /\ ppStatus = "none"
  /\ xcalls = <<>> /\ xqueue = <<>> /\ delivered = 0 /\ serveStart = 0
  /\ served = FALSE /\ ownerSeen = "none" /\ taken = NoEvent
  /\ clock = 0 /\ now = 0 /\ startTime = 0 /\ maxDuration = 0
  /\ lastSpeechTime = 0 /\ isAutoPaused = FALSE /\ isPaused = FALSE
  /\ isTimeout = FALSE /\ totalPausedDuration = 0 /\ lastPauseStart = 0
  /\ totalAutoPausedDuration = 0 /\ lastAutoPauseStart = 0
  /\ elapsed = 0 /\ remaining = 0 /\ secondsLeft = 0 /\ color = "none"
  /\ key = NoKey /\ modeAtKey = "none" /\ finishAndTranscribe = FALSE /\ appendSpace = TRUE
  /\ useTerminalPaste = FALSE /\ shouldExit = FALSE /\ rec = RecorderNew
  /\ timeoutEntries = 0 /\ hasRecElapsed = FALSE /\ recElapsed = 0
  /\ rearmAt = 0 /\ prevTick = NoTick
  /\ remainingFine = 0 /\ pending = <<>>
  /\ mainOps = <<>> /\ cbPc = "idle" /\ racing = FALSE

Next ==
  \/ MonitorPoll
  \/ WaitRelease
  \/ Setup
  \/ Tick
  \/ HandleKey
  \/ Finalize
  \/ Transcribe
  \/ PasteBegin
  \/ PasteServe
  \/ PasteReturn
  \/ DisplayInterval

Spec == Init /\ [][Next]_vars

\* The foreground thread is always scheduled again and every call it makes
\* returns: the X calls, the sleeps, the recognition call (by assumption)
LiveSpec == Init /\ [][Next]_vars /\ WF_vars(Next)

(***************************************************************************)
(* A session from the moment it leaves the recording loop                  *)
(***************************************************************************)
FinishKeys == {"v", "s", "t", "a", "ESC", "x", "ETX"}

\* the Recorder as the recording loop can leave it in each mode: the device
\* is stopped exactly in the manual pause and the timeout
FinishRecorders(mode) ==
  {[RecStart(RecorderNew, "ok") EXCEPT
      !.deviceStarted = mode \in {"Recording", "AutoPaused"},
      !.isWriting = w, !.levelHigh = h] :
     <<w, h>> \in
       CASE mode = "Recording"  -> {<<TRUE, FALSE>>, <<TRUE, TRUE>>}
         [] mode = "AutoPaused" -> {<<TRUE, FALSE>>, <<FALSE, FALSE>>}
         [] OTHER -> {<<TRUE, FALSE>>, <<TRUE, TRUE>>, <<FALSE, FALSE>>}}

\* the states in which the recording loop is left: a finishing, aborting or
\* exiting key was read in some mode (these are the states of Spec at the
\* line after the loop, see FinishInitIsLoopExit)
FinishInit ==
  /\ pc = "finalize"
  /\ key \in FinishKeys
  /\ modeAtKey \in {"Recording", "AutoPaused", "ManualPaused", "TimedOut"}
  /\ rec \in FinishRecorders(modeAtKey)
  /\ finishAndTranscribe = (key \in {"v", "s", "t"})
  /\ appendSpace = (key # "s")
  /\ useTerminalPaste = (key = "t")
  /\ shouldExit = (key \in {"x", "ETX"})
  /\ maxRecordTime \in 1..MaxRecordMinutes
  /\ postProcessCommand \in {"", "cmd"}
  /\ activeWin \in 0..1 /\ winVisible = TRUE
  /\ m_running = TRUE
  /\ state = 0 /\ triggeringKey = "none" /\ keyMap = NoKeysDown
  /\ sinceRelease = 0 /\ xFailed = FALSE
  /\ rawText = <<>> /\ text = <<>> /\ lastError = "none" /\ ppStatus = "none"
  /\ xcalls = <<>> /\ xqueue = <<>> /\ delivered = 0 /\ serveStart = 0
  /\ served = FALSE /\ ownerSeen = "none" /\ taken = NoEvent
  /\ clock = 0 /\ now = 0 /\ startTime = 0 /\ maxDuration = 0
  /\ lastSpeechTime = 0 /\ isAutoPaused = FALSE /\ isPaused = FALSE
  /\ isTimeout = FALSE /\ totalPausedDuration = 0 /\ lastPauseStart = 0
  /\ totalAutoPausedDuration = 0 /\ lastAutoPauseStart = 0
  /\ elapsed = 0 /\ remaining = 0 /\ secondsLeft = 0 /\ color = "white"
  /\ timeoutEntries = 0 /\ hasRecElapsed = FALSE /\ recElapsed = 0
  /\ rearmAt = 0 /\ prevTick = NoTick
  /\ remainingFine = 0 /\ pending = <<>>
  /\ mainOps = <<>> /\ cbPc = "idle" /\ racing = FALSE

\* every state in which Spec leaves the recording loop is one of FinishInit
FinishInitIsLoopExit == pc = "finalize" => FinishInit

\* up to the next gesture wait
FinishNext ==
  \/ Finalize
  \/ Transcribe
  \/ PasteBegin
  \/ PasteServe
  \/ PasteReturn
  \/ DisplayInterval

\* The foreground thread is always scheduled again and every call it makes
\* returns: the X calls, the sleeps, the recognition call (by assumption)
FinishSpec == FinishInit /\ [][FinishNext]_vars /\ WF_vars(FinishNext)

\* Paster::paste called on its own, with any text, target window and chord
PasteInit ==
  /\ pc = "paste"
  /\ text \in Texts
  /\ activeWin \in 0..1
  /\ useTerminalPaste \in BOOLEAN
  /\ m_running = TRUE
  /\ state = 0 /\ triggeringKey = "none" /\ keyMap = NoKeysDown
  /\ sinceRelease = 0 /\ xFailed = FALSE
  /\ maxRecordTime = 1 /\ postProcessCommand = ""
  /\ winVisible = FALSE /\ rawText = <<>> /\ lastError = "none"
  /\ ppStatus = "none"
  /\ xcalls = <<>> /\ xqueue = <<>> /\ delivered = 0 /\ serveStart = 0
  /\ served = FALSE /\ ownerSeen = "none" /\ taken = NoEvent
  /\ clock = 0 /\ now = 0 /\ startTime = 0 /\ maxDuration = 0
  /\ lastSpeechTime = 0 /\ isAutoPaused = FALSE /\ isPaused = FALSE
  /\ isTimeout = FALSE /\ totalPausedDuration = 0 /\ lastPauseStart = 0
  /\ totalAutoPausedDuration = 0 /\ lastAutoPauseStart = 0
  /\ elapsed = 0 /\ remaining = 0 /\ secondsLeft = 0 /\ color = "none"
  /\ key = NoKey /\ modeAtKey = "none" /\ finishAndTranscribe = FALSE
  /\ appendSpace = TRUE /\ shouldExit = FALSE /\ rec = RecorderNew
  /\ timeoutEntries = 0 /\ hasRecElapsed = FALSE /\ recElapsed = 0
  /\ rearmAt = 0 /\ prevTick = NoTick
  /\ remainingFine = 0 /\ pending = <<>>
  /\ mainOps = <<>> /\ cbPc = "idle" /\ racing = FALSE

\* until the caller's scope ends
PasteNext ==
  \/ PasteBegin
  \/ PasteServe
  \/ PasteReturn

PasteSpec == PasteInit /\ [][PasteNext]_vars

(***************************************************************************)
(* A session in its recording loop, as the specifications below start it   *)
(***************************************************************************)
\* the detector, the paste state and the Recorder threads at rest
OutsideSession ==
  /\ m_running = TRUE
  /\ state = 0 /\ triggeringKey = "none" /\ keyMap = NoKeysDown
  /\ sinceRelease = 0 /\ xFailed = FALSE
  /\ maxRecordTime = 1 /\ postProcessCommand = ""
  /\ rawText = <<>> /\ text = <<>> /\ lastError = "none" /\ ppStatus = "none"
  /\ xcalls = <<>> /\ xqueue = <<>> /\ delivered = 0 /\ serveStart = 0
  /\ served = FALSE /\ ownerSeen = "none" /\ taken = NoEvent
  /\ mainOps = <<>> /\ cbPc = "idle" /\ racing = FALSE
  /\ key = NoKey /\ modeAtKey = "none" /\ finishAndTranscribe = FALSE
  /\ appendSpace = TRUE /\ useTerminalPaste = FALSE /\ shouldExit = FALSE
  /\ timeoutEntries = 0 /\ rearmAt = 0 /\ prevTick = NoTick
  /\ clock = 0 /\ now = 0 /\ startTime = 0 /\ lastSpeechTime = 0
  /\ totalPausedDuration = 0 /\ lastPauseStart = 0
  /\ totalAutoPausedDuration = 0 /\ lastAutoPauseStart = 0

(***************************************************************************)
(* StatusWindow::checkForInput with any queue of events                    *)
(***************************************************************************)
\* the events that can be queued for the status window
WindowEvents ==
  {KeyPress("p"), KeyPress("+"), KeyPress("x"), ModifierPress, Expose}

PendingSeqs == UNION {[1..n -> WindowEvents] : n \in 0..MaxPending}

\* the first tick of a session has run; any events are queued
InputInit ==
  /\ pc = "input"
  /\ pending \in PendingSeqs
  /\ OutsideSession
  /\ activeWin = 1 /\ winVisible = TRUE
  /\ rec = RecStart(RecorderNew, "ok")
  /\ maxDuration = Minutes(maxRecordTime)
  /\ isAutoPaused = FALSE /\ isPaused = FALSE /\ isTimeout = FALSE
  /\ elapsed = 0 /\ remaining = maxDuration
  /\ remainingFine = remaining * SecondsPerUnit * TicksPerSecond
  /\ secondsLeft = DurationCastSeconds(remainingFine)
  /\ color = ColorOf(isTimeout, isPaused, isAutoPaused, secondsLeft)
  /\ hasRecElapsed = TRUE /\ recElapsed = 0

InputNext == HandleKey

InputSpec == InputInit /\ [][InputNext]_vars

(***************************************************************************)
(* The colour update of a tick with any flags and any remaining time       *)
(***************************************************************************)
ColourRange ==
  (0 - TicksPerSecond)..(MaxColourSeconds * TicksPerSecond)

\* line 455 is reached: the session timeout logic of this tick has run, so
\* remaining is positive unless the session is timed out
ColorInit ==
  /\ pc = "colour"
  /\ isTimeout \in BOOLEAN /\ isPaused \in BOOLEAN
  /\ isAutoPaused \in BOOLEAN
  /\ isTimeout => isPaused
  /\ remainingFine \in ColourRange
  /\ ~isTimeout => remainingFine > 0
  /\ OutsideSession
  /\ activeWin = 1 /\ winVisible = TRUE /\ pending = <<>>
  /\ rec = [RecStart(RecorderNew, "ok") EXCEPT
              !.deviceStarted = ~isPaused, !.isWriting = ~isAutoPaused]
  /\ remaining = remainingFine \div (SecondsPerUnit * TicksPerSecond)
  /\ maxDuration = Minutes(MaxRecordMinutes + 1)
  /\ elapsed = maxDuration - remaining
  /\ secondsLeft = DurationCastSeconds(remainingFine)
  /\ color = "white"
  /\ hasRecElapsed = FALSE /\ recElapsed = 0

\* lines 455-469
ColourUpdate ==
  /\ pc = "colour"
  /\ color' = ColorOf(isTimeout, isPaused, isAutoPaused, secondsLeft)
  /\ pc' = "input"
  /\ UNCHANGED <<sessionButColor, monitorVars, configVars, threadVars,
                 handoffVars, pasteVars>>

ColorNext == ColourUpdate

ColorSpec == ColorInit /\ [][ColorNext]_vars

(***************************************************************************)
(* The Recorder under any client, with the capture thread of the audio     *)
(* library running data_callback. ma_device_stop and ma_device_uninit      *)
(* return only when no callback is running any more.                       *)
(***************************************************************************)
\* Recorder::start as the sequence of its steps
StartSteps(r) ==
  IF r.isRecording THEN <<>>
  ELSE <<"encoderInit", "storeWriting", "deviceInit", "deviceStart",
         "storeRecordingBegin", "storeRecordingEnd", "storeInitialized">>

StopStepsEncoderFirst(r) ==
  (IF r.isRecording THEN <<"encoderUninit", "clearRecording">> ELSE <<>>)
    \o (IF r.isInitialized THEN <<"deviceUninit", "clearInitialized">>
        ELSE <<>>)

\* Recorder::stop as the sequence of its steps
StopSteps(r) ==
  (IF r.isInitialized THEN <<"deviceUninit", "clearInitialized">> ELSE <<>>)
    \o (IF r.isRecording THEN <<"encoderUninit", "clearRecording">>
        ELSE <<>>)

\* Recorder::pause
PauseSteps(r) ==
  IF r.isInitialized /\ r.isRecording THEN <<"deviceStop">> ELSE <<>>

\* Recorder::resume; the result of ma_device_start is not read
ResumeSteps(r) ==
  IF r.isInitialized /\ r.isRecording THEN <<"deviceRestart">> ELSE <<>>

RecorderInit ==
  /\ pc = "setup"
  /\ rec = RecorderNew
  /\ OutsideSession
  /\ activeWin = 0 /\ winVisible = FALSE /\ pending = <<>>
  /\ maxDuration = 0 /\ isAutoPaused = FALSE /\ isPaused = FALSE
  /\ isTimeout = FALSE /\ elapsed = 0 /\ remaining = 0
  /\ remainingFine = 0 /\ secondsLeft = 0 /\ color = "none"
  /\ hasRecElapsed = FALSE /\ recElapsed = 0

\* the foreground thread enters a method of the Recorder
MainCall ==
  /\ mainOps = <<>>
  /\ \E m \in {"start", "stop", "pause", "resume", "writeOn", "writeOff"} :
       mainOps' = CASE m = "start"    -> StartSteps(rec)
                    [] m = "stop"     -> StopSteps(rec)
                    [] m = "pause"    -> PauseSteps(rec)
                    [] m = "resume"   -> ResumeSteps(rec)
                    [] m = "writeOn"  -> <<"storeWriting">>
                    [] m = "writeOff" -> <<"clearWriting">>
  /\ mainOps' # <<>>
  /\ UNCHANGED <<pc, rec, cbPc, racing, sessionButRec, monitorVars,
                 configVars, handoffVars, pasteVars>>

\* the foreground thread executes the next step of the method
MainStep ==
  /\ mainOps # <<>>
  /\ LET op   == Head(mainOps)
         rest == Tail(mainOps)
     IN  \E ok \in BOOLEAN :
           CASE op = "encoderInit" ->
                  /\ rec' = [rec EXCEPT !.encoderUp = ok]
                  /\ mainOps' = IF ok THEN rest ELSE <<>>
                  /\ racing' = racing
             [] op = "storeWriting" ->
                  /\ ok
                  /\ rec' = [rec EXCEPT !.isWriting = TRUE]
                  /\ mainOps' = rest /\ racing' = racing
             [] op = "clearWriting" ->
                  /\ ok
                  /\ rec' = [rec EXCEPT !.isWriting = FALSE]
                  /\ mainOps' = rest /\ racing' = racing
             [] op = "deviceInit" ->
                  /\ rec' = [rec EXCEPT !.deviceUp = ok]
                  /\ mainOps' = IF ok THEN rest ELSE <<"encoderUninit">>
                  /\ racing' = racing
             [] op = "deviceStart" ->
                  /\ rec' = [rec EXCEPT !.deviceStarted = ok]
                  /\ mainOps' = IF ok THEN rest
                                ELSE <<"deviceUninit", "encoderUninit">>
                  /\ racing' = racing
             [] op = "deviceRestart" ->
                  /\ rec' = [rec EXCEPT !.deviceStarted = (@ \/ ok)]
                  /\ mainOps' = rest /\ racing' = racing
             [] op = "storeRecordingBegin" ->
                  /\ ok
                  /\ racing' = TRUE
                  /\ mainOps' = rest /\ rec' = rec
             [] op = "storeRecordingEnd" ->
                  /\ ok
                  /\ rec' = [rec EXCEPT !.isRecording = TRUE]
                  /\ racing' = FALSE
                  /\ mainOps' = rest
             [] op = "storeInitialized" ->
                  /\ ok
                  /\ rec' = [rec EXCEPT !.isInitialized = TRUE]
                  /\ mainOps' = rest /\ racing' = racing
             [] op \in {"deviceStop", "deviceUninit"} ->
                  /\ ok
                  /\ cbPc = "idle"
                  /\ rec' = [rec EXCEPT !.deviceStarted = FALSE,
                                        !.deviceUp = (op = "deviceStop")]
                  /\ mainOps' = rest /\ racing' = racing
             [] op = "clearInitialized" ->
                  /\ ok
                  /\ rec' = [rec EXCEPT !.isInitialized = FALSE]
                  /\ mainOps' = rest /\ racing' = racing
             [] op = "encoderUninit" ->
                  /\ ok
                  /\ rec' = [rec EXCEPT !.encoderUp = FALSE]
                  /\ mainOps' = rest /\ racing' = racing
             [] op = "clearRecording" ->
                  /\ ok
                  /\ rec' = [rec EXCEPT !.isRecording = FALSE]
                  /\ mainOps' = rest /\ racing' = racing
  /\ UNCHANGED <<pc, cbPc, sessionButRec, monitorVars, configVars,
                 handoffVars, pasteVars>>

\* the capture thread calls data_callback: only a started device does
CallbackEnter ==
  /\ cbPc = "idle"
  /\ rec.deviceStarted
  /\ cbPc' = "entered"
  /\ UNCHANGED <<pc, rec, mainOps, racing, sessionButRec, monitorVars,
                 configVars, handoffVars, pasteVars>>

\* One step of data_callback. m_isRecording is a plain bool: a read that
\* races with the store in start() yields either value.
CallbackStep ==
  /\ cbPc # "idle"
  /\ CASE cbPc = "entered" ->
            \E seen \in (IF racing THEN BOOLEAN ELSE {rec.isRecording}) :
              /\ cbPc' = IF seen THEN "checkWriting" ELSE "idle"
              /\ rec' = rec
       [] cbPc = "checkWriting" ->
            /\ cbPc' = IF rec.isWriting THEN "write" ELSE "level"
            /\ rec' = rec
       [] cbPc = "write" ->
            \* ma_encoder_write_pcm_frames
            /\ cbPc' = "level"
            /\ rec' = rec
       [] cbPc = "level" ->
            /\ \E lv \in BOOLEAN : rec' = [rec EXCEPT !.levelHigh = lv]
            /\ cbPc' = "idle"
  /\ UNCHANGED <<pc, mainOps, racing, sessionButRec, monitorVars,
                 configVars, handoffVars, pasteVars>>

RecorderNext ==
  \/ MainCall
  \/ MainStep
  \/ CallbackEnter
  \/ CallbackStep

RecorderSpec == RecorderInit /\ [][RecorderNext]_vars

(***************************************************************************)
(* Properties                                                              *)
(***************************************************************************)
\* a step of HandleKey that handled key k and went on to the next tick
KeyStep(k) == pc = "input" /\ key' = k /\ pc' = "tick"

\* elapsed as the code computes it at time t from the locals after the step
ElapsedAfter(t) ==
  ElapsedOf(t, startTime', isPaused', lastPauseStart', totalPausedDuration',
            isAutoPaused', lastAutoPauseStart', totalAutoPausedDuration')

RemainingAfter(t) == maxDuration' - ElapsedAfter(t)

\* C1: at every tick elapsed is never negative, and remaining never exceeds
\* the current max-duration budget.
C1_ElapsedNeverNegative ==
  pc = "input" => (elapsed >= 0 /\ remaining <= maxDuration)

\* C2: between two ticks of one session that are both in mode Recording,
\* with no restart between them, elapsed does not decrease.
C2_ElapsedMonotoneWhileRecording ==
  [][(pc = "tick" /\ pc' = "input" /\ hasRecElapsed /\ Mode' = "Recording")
       => elapsed' >= recElapsed]_vars

\* C3: at every tick elapsed never exceeds the steady-clock time since the
\* session start.
C3_ElapsedAtMostWallClock ==
  pc = "input" => elapsed <= now - startTime

\* C3 witness: a tick after a manual pause, an auto-pause and an extension
\* have all been credited, with elapsed strictly below the wall-clock time.
C3_Witness ==
  /\ pc = "input" /\ Mode = "Recording"
  /\ totalPausedDuration > 0 /\ totalAutoPausedDuration > 0
  /\ maxDuration > Minutes(maxRecordTime)
  /\ elapsed > 0 /\ elapsed < now - startTime

\* C4: at most one of the three pause sources (manual, timeout, auto-silence)
\* is active; in particular never timed out and auto-paused together.
C4_PauseSourcesExclusive ==
  /\ ~(isTimeout /\ isAutoPaused)
  /\ ~(isPaused /\ ~isTimeout /\ isAutoPaused)

\* C5: '+' handled while TimedOut leaves the session not timed out and makes
\* remaining exactly one extension larger than just before the key.
C5_ExtendFromTimeout ==
  [][(KeyStep("+") /\ isTimeout)
       => (/\ ~isTimeout'
           /\ RemainingAfter(now) = RemainingAt(now) + Minutes(maxRecordTime))
    ]_vars

\* C5 witness: a '+' has just been handled in mode TimedOut.
C5_Witness ==
  /\ pc = "tick" /\ key = "+" /\ modeAtKey = "TimedOut"
  /\ ~isTimeout /\ maxDuration = 2 * Minutes(maxRecordTime)

\* C6: '+' handled while TimedOut returns the mode to Recording with the
\* capture device resumed.
C6_ExtendReturnsToRecording ==
  [][(KeyStep("+") /\ isTimeout)
       => (Mode' = "Recording" /\ rec'.deviceStarted)]_vars

\* C7: TimedOut is entered at most once without an extension (or restart)
\* in between.
C7_TimeoutOncePerExtension == timeoutEntries <= 1

\* C7 witness: the session is timed out again after an earlier timeout was
\* extended.
C7_Witness ==
  /\ pc = "input" /\ isTimeout /\ timeoutEntries = 1
  /\ maxDuration > Minutes(maxRecordTime)
  /\ totalPausedDuration > 0 /\ elapsed >= maxDuration

\* C8: 'r' resets everything: mode Recording, no pause source active, all
\* pause totals zero, elapsed 0 and remaining equal to the configured budget.
C8_RestartResetsAll ==
  [][KeyStep("r")
       => (/\ Mode' = "Recording"
           /\ ~isPaused' /\ ~isTimeout' /\ ~isAutoPaused'
           /\ totalPausedDuration' = 0 /\ totalAutoPausedDuration' = 0
           /\ ElapsedAfter(startTime') = 0
           /\ RemainingAfter(startTime') = Minutes(maxRecordTime))]_vars

\* C9: monitor has returned true only with the triggering key released at
\* the last keymap query.
C9_ReturnsTrueOnlyAfterRelease ==
  pc = "setup" => (state = 3 /\ ~keyMap[triggeringKey])

\* C9 witness: monitor returned true for the right variant while the left
\* variant was down.
C9_Witness ==
  pc = "setup" /\ triggeringKey = "R" /\ keyMap["L"] /\ ~keyMap["R"]

\* C10: a failure of the input subsystem during the gesture wait makes
\* monitor return false and so ends the outer loop, and monitor returns
\* false in no other case.
C10_FailureReturnsFalse ==
  /\ xFailed => (pc = "exited" /\ ~m_running)
  /\ (pc = "exited" /\ ~shouldExit) => xFailed

\* the X requests of one kind that paste has issued
CallsOf(kind) == {i \in 1..Len(xcalls) : xcalls[i].call = kind}

\* the answers to genuine data requests among the X requests issued
DataAnswers(calls) ==
  {i \in 1..Len(calls) :
     calls[i].call = "Answer" /\ calls[i].target \in {"UTF8_STRING", "STRING"}}

\* C11: paste with empty text acquires no ownership, changes no focus,
\* synthesizes no keystroke, serves nothing and returns immediately.
C11_EmptyTextDoesNothing ==
  (pc \in {"serve", "pasted"} /\ text = <<>>)
    => (/\ pc = "pasted"
        /\ xcalls = <<>>
        /\ ownerSeen = "none"
        /\ ~served /\ taken = NoEvent
        /\ clock = 0)

\* C11 witness: paste has returned from a call with empty text.
C11_Witness == pc = "pasted" /\ text = <<>> /\ activeWin = 1

\* C12: when ownership of the clipboard is not confirmed, paste returns
\* before any focus change or keystroke and serves nothing; the session
\* still completes and the controller re-arms the trigger.
C12_UnconfirmedOwnershipAborts ==
  [][/\ (pc' \in {"serve", "pasted"} /\ ownerSeen' = "other")
          => (/\ pc' = "pasted"
              /\ xcalls' = <<[call |-> "SetSelectionOwner"]>>
              /\ ~served' /\ taken' = NoEvent)
     /\ (pc = "pasted" /\ ownerSeen = "other")
          => (pc' = "monitor" /\ m_running' /\ state' = 0)]_vars

\* C12 witness: paste has returned after another client was found to own the
\* clipboard, with a target window that would have been focused.
C12_Witness ==
  /\ pc = "pasted" /\ ownerSeen = "other" /\ activeWin = 1 /\ key = "t"
  /\ text # <<>>

C14_PasteReturnsWithinDeadline ==
  [][/\ pc' \in {"serve", "pasted"}
          => (/\ clock' - serveStart' < PasteDeadline + MaxPollSleep
              /\ serveStart' <= MaxSettle)
     /\ (pc = "serve" /\ clock - serveStart >= PasteDeadline)
          => pc' = "pasted"
     /\ pc = "pasted" => (pc' # "serve" /\ xcalls' = <<>>)]_vars

\* C14 witness: paste returned on the deadline with an unserved request of
\* another selection taken and an event still pending.
C14_Witness ==
  /\ pc = "pasted" /\ ~served /\ ownerSeen = "self"
  /\ clock - serveStart >= PasteDeadline
  /\ xqueue # <<>>

\* the silence timeout is exceeded at a tick taken now, with the level low
SilenceTick ==
  /\ pc = "tick" /\ pc' = "input"
  /\ Mode = "Recording"
  /\ ~rec'.levelHigh
  /\ clock - lastSpeechTime > VadTimeout

\* C15 as stated: at a Recording tick with the silence timeout exceeded the
\* mode becomes AutoPaused at that tick, write-enable goes false and the
\* capture device stays started.
C15_SilenceEntersAutoPause ==
  [][SilenceTick
       => (Mode' = "AutoPaused" /\ ~rec'.isWriting /\ rec'.deviceStarted)
    ]_vars

\* C15 amended: at a Recording tick with the silence timeout exceeded the
\* auto-pause flag is set and write-enable goes false at that tick; the mode
\* is AutoPaused with the device still started unless the session timeout is
\* reached at the same tick, and then the mode is TimedOut with the device
\* paused.
C15_SilenceEntersAutoPauseUnlessTimeout ==
  [][SilenceTick
       => (/\ isAutoPaused' /\ ~rec'.isWriting
           /\ lastAutoPauseStart' = clock
           /\ IF remaining' <= 0
                THEN Mode' = "TimedOut" /\ ~rec'.deviceStarted
                ELSE Mode' = "AutoPaused" /\ rec'.deviceStarted)]_vars

\* C15 witness: a tick has just entered auto-pause from Recording.
C15_Witness ==
  /\ pc = "input" /\ Mode = "AutoPaused" /\ lastAutoPauseStart = now
  /\ ~rec.isWriting /\ rec.deviceStarted /\ remaining > 0
  /\ now - lastSpeechTime > VadTimeout

\* C16: in Recording or AutoPaused, at the first tick at which remaining is
\* not positive the mode becomes TimedOut in that tick, the device is paused,
\* the colour is the alert colour and the seconds left are 0.
C16_TimeoutEntry ==
  [][(/\ pc = "tick" /\ pc' = "input"
      /\ Mode \in {"Recording", "AutoPaused"}
      /\ remaining' <= 0)
       => (/\ Mode' = "TimedOut"
           /\ ~rec'.deviceStarted
           /\ color' = "red"
           /\ secondsLeft' = 0
           /\ lastPauseStart' = clock)]_vars

\* C16 witness: a tick has just entered TimedOut with the budget used up
\* exactly.
C16_Witness ==
  /\ pc = "input" /\ Mode = "TimedOut" /\ lastPauseStart = now
  /\ remaining = 0 /\ ~rec.deviceStarted /\ color = "red"
  /\ secondsLeft = 0 /\ ~isAutoPaused

\* the text handed to paste without its appended space
Body == IF appendSpace THEN SubSeq(text, 1, Len(text) - 1) ELSE text

\* C17 as stated: the text handed to paste is the trimmed transcription
\* plus exactly one space for v and t, none for s.
C17_PasteTextIsTrimmedTranscription ==
  pc = "paste" => text = WithSpace(Trim(rawText), key \in {"v", "t"})

\* C17 amended: v, s, t end the session finishing with append-space for v
\* and t and the terminal chord for t; the text handed to paste is the
\* trimmed transcription, passed through the post-process filter when one is
\* configured, non-empty and with no outer whitespace, plus exactly one
\* space for v and t and none for s; the shifted chord is used exactly when
\* the key was t.
C17_FinishKeysAndPasteText ==
  /\ pc = "finalize" => (finishAndTranscribe <=> key \in {"v", "s", "t"})
  /\ pc \in {"transcribe", "paste", "serve", "pasted"} => finishAndTranscribe
  /\ finishAndTranscribe
       => (/\ key \in {"v", "s", "t"}
           /\ appendSpace = (key \in {"v", "t"})
           /\ useTerminalPaste = (key = "t"))
  /\ pc \in {"paste", "serve", "pasted"}
       => (/\ Body # <<>> /\ Trim(Body) = Body
           /\ text = WithSpace(Body, key \in {"v", "t"}))
  /\ (pc = "paste" /\ postProcessCommand = "") => Body = Trim(rawText)
  /\ pc = "serve"
       => ((\E i \in CallsOf("FakeKey") : xcalls[i].key = "Shift")
             <=> key = "t")

\* C17 witness: the filtered text of a t session is being served after the
\* shifted chord.
C17_Witness ==
  /\ pc = "serve" /\ key = "t" /\ postProcessCommand = "cmd"
  /\ text = <<"a", "a", " ">>
  /\ \E i \in CallsOf("FakeKey") : xcalls[i].key = "Shift"

\* C18: a or ESC aborts the session from any mode: capture is stopped,
\* recognition is never invoked, nothing is pasted and the controller is
\* back at AwaitingTrigger.
C18_AbortDiscards ==
  [][/\ (pc = "input" /\ key' \in {"a", "ESC"})
          => (pc' = "finalize" /\ ~finishAndTranscribe' /\ ~shouldExit')
     /\ (pc = "finalize" /\ key \in {"a", "ESC"})
          => (/\ pc' = "monitor" /\ m_running'
              /\ ~rec'.isRecording /\ ~rec'.deviceStarted
              /\ xcalls' = <<>> /\ text' = <<>> /\ lastError' = lastError)
     /\ pc' \in {"transcribe", "paste", "serve", "pasted"}
          => key' \notin {"a", "ESC"}]_vars

\* C18 witness: ESC has been handled while the session was timed out.
C18_Witness ==
  /\ pc = "finalize" /\ key = "ESC" /\ modeAtKey = "TimedOut"
  /\ rec.isRecording

\* C19: every per-session error is caught inside the session; only a
\* failure of the input subsystem ends the process.
C19_SessionErrorsContained ==
  pc \in {"exited", "terminated", "xioExit"} => (xFailed \/ shouldExit)

\* C20: when capture fails to start after the trigger the session is
\* abandoned: no tick runs, nothing is transcribed or pasted, the process
\* keeps running and the controller is back at AwaitingTrigger.
C20_StartFailureAbandonsSession ==
  [][/\ (pc = "setup" /\ pc' \notin {"tick", "input", "terminated"})
          => (/\ pc' = "monitor" /\ m_running' /\ state' = 0
              /\ lastError' = "start"
              /\ ~rec'.isRecording /\ ~winVisible'
              /\ xcalls' = <<>> /\ text' = <<>>)
     /\ pc' \in {"tick", "input"}
          => (rec'.isRecording /\ rec'.isInitialized /\ lastError' = "none")
     /\ lastError' = "start" => pc' \in {"monitor", "waitRelease", "setup",
                                         "exited", "xioExit", "terminated"}
    ]_vars

\* C20 witness: the trigger is awaited again after a failed capture start.
C20_Witness ==
  pc = "monitor" /\ lastError = "start" /\ m_running /\ state = 1

\* C21 as stated: paste is invoked for a session exactly when the session
\* ended in Finishing, transcription succeeded and the text after trimming
\* and post-processing is non-empty; on a recognition failure and on an
\* empty result nothing is pasted and the trigger is awaited again.
C21_PasteIffText ==
  [][/\ pc = "paste" => pc' \in {"serve", "pasted"}
     /\ pc' = "paste"
          => (/\ pc = "transcribe" /\ finishAndTranscribe
              /\ lastError' = lastError
              /\ Len(text') > (IF appendSpace THEN 1 ELSE 0))
     /\ pc' = "noSpeech" => (pc = "transcribe" /\ text' = <<>>)
     /\ pc \in {"noSpeech", "errorShown"}
          => (pc' = "monitor" /\ m_running' /\ xcalls' = <<>>)]_vars

\* C21 amended: as stated, except that the Paster may fail to open the X
\* display after a non-empty text was produced; then paste is not invoked,
\* the failure is logged as a transcription error and shown for the error
\* interval, and the trigger is awaited again.
C21_PasteIffTextAndDisplay ==
  [][/\ pc = "paste" => pc' \in {"serve", "pasted", "errorShown"}
     /\ (pc = "paste" /\ pc' = "errorShown")
          => (lastError' = "transcribe" /\ xcalls' = <<>>)
     /\ pc' = "paste"
          => (/\ pc = "transcribe" /\ finishAndTranscribe
              /\ lastError' = lastError
              /\ Len(text') > (IF appendSpace THEN 1 ELSE 0))
     /\ pc' = "noSpeech" => (pc = "transcribe" /\ text' = <<>>)
     /\ (pc = "transcribe" /\ pc' = "errorShown")
          => (lastError' = "transcribe" /\ text' = <<>>)
     /\ pc = "transcribe" => pc' \in {"paste", "noSpeech", "errorShown"}
     /\ pc \in {"noSpeech", "errorShown"}
          => (pc' = "monitor" /\ m_running' /\ xcalls' = <<>>)
     /\ (xcalls' # xcalls /\ xcalls' # <<>>) => pc \in {"paste", "serve"}
    ]_vars

\* C21 witness: "No speech detected." is shown for a transcription of
\* whitespace only.
C21_Witness ==
  pc = "noSpeech" /\ key = "v" /\ rawText # <<>> /\ text = <<>>

\* C22: whenever the post-process transform fails (its input cannot be
\* written, it cannot be launched, or the command itself fails) the text
\* delivered is the untransformed transcription.
C22_PostProcessFailurePassesThrough ==
  (/\ pc \in {"paste", "noSpeech"}
   /\ ppStatus \in {"writeFails", "popenFails", "commandFails"})
    => Body = Trim(rawText)

\* C23: on the tick where voice ends an auto-pause, the amount added to the
\* auto-pause total is the time since that auto-pause began, so elapsed at
\* the resume tick equals elapsed at the tick where the auto-pause began.
C23_AutoPauseCreditedOwnDuration ==
  [][(pc = "tick" /\ Mode = "AutoPaused" /\ rec'.levelHigh)
       => /\ ~isAutoPaused'
          /\ totalAutoPausedDuration' - totalAutoPausedDuration
               = clock - lastAutoPauseStart
          /\ elapsed' = ElapsedAt(lastAutoPauseStart)]_vars

\* C24: two consecutive ticks in the same paused mode (ManualPaused,
\* AutoPaused or TimedOut) with no key handled between them compute the same
\* elapsed and the same remaining.
C24_PausedTicksFreezeElapsed ==
  [][(pc = "tick" /\ pc' = "input" /\ prevTick.mode # "none"
      /\ Mode' = prevTick.mode)
       => /\ elapsed' = prevTick.elapsed
          /\ remaining' = maxDuration - prevTick.elapsed]_vars

\* the recording loop is between a tick and the next
InLoop == pc \in {"tick", "input"}

\* C25: inside the recording loop the write-enable flag is false in mode
\* AutoPaused and true in mode Recording.
C25_WriteEnableTracksMode ==
  InLoop => /\ Mode = "AutoPaused" => ~rec.isWriting
            /\ Mode = "Recording" => rec.isWriting

\* C26: inside the recording loop the capture device is paused exactly in
\* the modes ManualPaused and TimedOut.
C26_DevicePausedIffManualOrTimedOut ==
  InLoop => (~rec.deviceStarted <=> Mode \in {"ManualPaused", "TimedOut"})

C26_Witness ==
  pc = "input" /\ Mode = "TimedOut" /\ isAutoPaused /\ ~rec.deviceStarted

\* C27: 'p' in mode Recording or AutoPaused gives mode ManualPaused with the
\* device paused; an active auto-pause is ended and the time from its own
\* start to now is added to the auto-pause total.
C27_PauseFromRecordingOrAutoPaused ==
  [][(KeyStep("p") /\ Mode \in {"Recording", "AutoPaused"})
       => /\ Mode' = "ManualPaused"
          /\ ~rec'.deviceStarted
          /\ ~isAutoPaused'
          /\ lastPauseStart' = now
          /\ totalAutoPausedDuration' =
               totalAutoPausedDuration
               + (IF isAutoPaused THEN now - lastAutoPauseStart ELSE 0)
          /\ totalPausedDuration' = totalPausedDuration]_vars

C27_Witness ==
  /\ pc = "tick" /\ key = "p" /\ modeAtKey = "AutoPaused"
  /\ Mode = "ManualPaused" /\ lastPauseStart # lastAutoPauseStart

\* C28: 'p' in mode TimedOut changes nothing: mode, flags, totals, budget,
\* device state and write-enable keep their values.
C28_PauseIgnoredWhenTimedOut ==
  [][(KeyStep("p") /\ Mode = "TimedOut")
       => UNCHANGED <<isTimeout, isPaused, isAutoPaused, totalPausedDuration,
                      totalAutoPausedDuration, lastPauseStart,
                      lastAutoPauseStart, lastSpeechTime, startTime,
                      maxDuration, rec, timeoutEntries>>]_vars

C28_Witness ==
  pc = "tick" /\ key = "p" /\ modeAtKey = "TimedOut" /\ Mode = "TimedOut"

\* C29: a tick enters auto-pause only from mode Recording and only when more
\* than the silence timeout has passed since the latest of: a sample above
\* the threshold, the session start or restart, a manual resume, an
\* extension out of a timeout.
C29_AutoPauseOnlyAfterSilence ==
  [][(pc = "tick" /\ ~isAutoPaused /\ isAutoPaused')
       => /\ Mode = "Recording"
          /\ clock - rearmAt > VadTimeout]_vars

\* C30: monitor returns true only from the final state, which is entered
\* only from the re-press wait by a press of the key that began the tap
\* within the tap timeout; the states are passed in order, and an expired
\* tap window puts the detector back to Idle.
C30_DoubleTapSequence ==
  [][/\ (state' = 1 /\ state # 1)
          => (state = 0 /\ keyMap'[triggeringKey'])
     /\ (state' = 2 /\ state # 2)
          => (state = 1 /\ ~keyMap'[triggeringKey]
              /\ triggeringKey' = triggeringKey)
     /\ (state' = 3 /\ state # 3)
          => (state = 2 /\ keyMap'[triggeringKey]
              /\ triggeringKey' = triggeringKey
              /\ sinceRelease <= TapTimeout)
     /\ (pc = "monitor" /\ state = 2 /\ pc' = "monitor"
         /\ sinceRelease > TapTimeout) => state' = 0
     /\ (pc' = "setup" /\ pc # "setup")
          => (pc = "waitRelease" /\ state = 3)]_vars

C30_Witness ==
  pc = "waitRelease" /\ state = 3 /\ triggeringKey = "L" /\ keyMap["R"]

\* a SelectionClear is among the events delivered and not yet taken
ClearDelivered(q) == \E i \in 1..Len(q) : q[i].type = "SelectionClear"

\* C31: once a SelectionClear has been delivered to the paste window, no
\* further data request is served, whatever requests are pending with it.
C31_RevocationEndsServing ==
  [][(pc = "serve" /\ ClearDelivered(xqueue))
       => DataAnswers(xcalls') = DataAnswers(xcalls)]_vars

\* the number of events the serve loop has taken from the queue
Consumed == delivered - Len(xqueue)

\* C32: every CLIPBOARD SelectionRequest taken from the queue gets exactly
\* one answer in the iteration that took it: TARGETS the list UTF8_STRING,
\* STRING; UTF8_STRING and STRING the text typed as the requested target;
\* any other target a refusal. Nothing else is answered: a request for
\* another selection is dropped without a reply.
C32_EveryRequestAnsweredOnce ==
  [][pc = "serve"
       => IF /\ Consumed' = Consumed + 1
             /\ taken'.type = "SelectionRequest"
             /\ taken'.selection = "CLIPBOARD"
            THEN /\ Len(xcalls') = Len(xcalls) + 1
                 /\ SubSeq(xcalls', 1, Len(xcalls)) = xcalls
                 /\ LET a == xcalls'[Len(xcalls')]
                    IN  /\ a.call = "Answer"
                        /\ a.target = taken'.target
                        /\ CASE taken'.target = "TARGETS" ->
                                  /\ a.property = "set" /\ a.type = "ATOM"
                                  /\ a.data = <<"UTF8_STRING", "STRING">>
                             [] taken'.target \in {"UTF8_STRING", "STRING"} ->
                                  /\ a.property = "set"
                                  /\ a.type = taken'.target
                                  /\ a.data = text
                             [] OTHER ->
                                  a.property = "None" /\ a.data = <<>>
            ELSE xcalls' = xcalls]_vars

\* C32 witness: a request with an unsupported target has been refused and a
\* request for another selection has then been taken and dropped.
C32_Witness ==
  /\ pc = "serve" /\ taken = SelectionRequest("PRIMARY", "UTF8_STRING")
  /\ Len(xcalls) > 0
  /\ xcalls[Len(xcalls)].call = "Answer"
  /\ xcalls[Len(xcalls)].target = "OTHER"
  /\ xcalls[Len(xcalls)].property = "None"

\* the synthesized key events among the X requests issued, in order
FakeKeys == SelectSeq(xcalls, LAMBDA c : c.call = "FakeKey")

\* C33: the synthesized chord is Ctrl-down, [Shift-down], V-down, V-up,
\* [Shift-up], Ctrl-up, with the Shift events exactly when the alternate
\* chord is asked for; it is complete, every key released, before the first
\* request is answered, and no key event is synthesized on any other path.
C33_ChordExactAndReleased ==
  /\ (pc \in {"serve", "pasted"} /\ ownerSeen = "self")
       => /\ FakeKeys =
               IF useTerminalPaste
                 THEN << [call |-> "FakeKey", key |-> "Ctrl", down |-> TRUE],
                         [call |-> "FakeKey", key |-> "Shift", down |-> TRUE],
                         [call |-> "FakeKey", key |-> "V", down |-> TRUE],
                         [call |-> "FakeKey", key |-> "V", down |-> FALSE],
                         [call |-> "FakeKey", key |-> "Shift", down |-> FALSE],
                         [call |-> "FakeKey", key |-> "Ctrl", down |-> FALSE] >>
                 ELSE << [call |-> "FakeKey", key |-> "Ctrl", down |-> TRUE],
                         [call |-> "FakeKey", key |-> "V", down |-> TRUE],
                         [call |-> "FakeKey", key |-> "V", down |-> FALSE],
                         [call |-> "FakeKey", key |-> "Ctrl", down |-> FALSE] >>
          /\ \A k \in {"Ctrl", "Shift", "V"} :
               Cardinality({i \in CallsOf("FakeKey") :
                              xcalls[i].key = k /\ xcalls[i].down})
                 = Cardinality({i \in CallsOf("FakeKey") :
                                  xcalls[i].key = k /\ ~xcalls[i].down})
          /\ \A i \in CallsOf("FakeKey"), j \in CallsOf("Answer") : i < j
  /\ ~(pc \in {"serve", "pasted"} /\ ownerSeen = "self") => FakeKeys = <<>>

\* C33 witness: a data request has been served after the shifted chord.
C33_Witness ==
  /\ pc = "pasted" /\ served /\ useTerminalPaste
  /\ Len(FakeKeys) = 6

\* the positions after the recording loop of a finishing session
AfterCapture ==
  {"transcribe", "paste", "serve", "pasted", "noSpeech", "errorShown"}

\* C34: the gesture wait, the tick loop and the serve loop never overlap:
\* capture is stopped on every way out of the tick loop before transcription
\* starts, paste starts only after transcription has returned, and the
\* gesture wait starts again only after paste has returned.
C34_PhasesNeverOverlap ==
  [][/\ pc' \in AfterCapture \cup {"monitor", "waitRelease", "exited"}
          => (~rec'.isRecording /\ ~rec'.deviceStarted)
     /\ (pc = "finalize" /\ pc' # pc)
          => (~rec'.isRecording /\ ~rec'.deviceStarted)
     /\ (pc' = "transcribe" /\ pc # pc') => pc = "finalize"
     /\ (pc' = "paste" /\ pc # pc') => pc = "transcribe"
     /\ (pc' = "serve" /\ pc # pc') => pc = "paste"
     /\ pc' \notin {"serve", "pasted"} => xcalls' = <<>>
     /\ (pc' = "monitor" /\ pc # pc')
          => pc \in {"pasted", "noSpeech", "errorShown", "finalize",
                     "setup"}
     /\ (pc = "serve" /\ pc # pc') => pc' = "pasted"
     /\ (pc' \in {"tick", "input"} /\ pc \notin {"tick", "input"})
          => (pc = "setup" /\ state = 3)]_vars

\* C34 witness: the serve loop runs with capture stopped.
C34_Witness ==
  /\ pc = "serve" /\ ~rec.isRecording /\ ~rec.deviceStarted
  /\ xqueue # <<>> /\ key = "s"

\* C35: the focus target is the window that had the focus before the status
\* window was shown and is kept for the session; when paste begins the
\* status window is closed; inside paste the focus is set to the target,
\* when it is not 0, before the first key event is synthesized.
C35_FocusTargetRestoredBeforeChord ==
  [][/\ (pc = "setup" /\ pc' = "tick")
          => (activeWin' \in 0..1 /\ ~winVisible /\ winVisible')
     /\ (pc \in {"tick", "input", "finalize", "transcribe", "paste", "serve"}
         /\ pc' \in {"tick", "input", "finalize", "transcribe", "paste",
                     "serve", "pasted"})
          => activeWin' = activeWin
     /\ pc' \in {"paste", "serve", "pasted"} => ~winVisible'
     /\ (pc = "paste" /\ pc' = "serve")
          => LET focus == {i \in 1..Len(xcalls') :
                             xcalls'[i].call = "SetInputFocus"}
                 keys  == {i \in 1..Len(xcalls') :
                             xcalls'[i].call = "FakeKey"}
             IN  /\ keys # {}
                 /\ IF activeWin = 0
                      THEN focus = {}
                      ELSE /\ Cardinality(focus) = 1
                           /\ \A i \in focus :
                                /\ xcalls'[i].window = activeWin
                                /\ \A j \in keys : i < j]_vars

\* C35 witness: the chord has been synthesized for a captured target.
C35_Witness ==
  /\ pc = "serve" /\ activeWin = 1 /\ ~winVisible /\ key = "v"
  /\ \E i \in CallsOf("SetInputFocus") : xcalls[i].window = 1

\* C36: x or ETX in any mode ends the tick loop with the exit flag set:
\* capture is stopped, nothing is transcribed or pasted, the outer loop ends
\* and monitor is not called again.
C36_ExitEndsOuterLoop ==
  [][/\ (pc = "input" /\ key' \in {"x", "ETX"})
          => (pc' = "finalize" /\ shouldExit' /\ ~finishAndTranscribe')
     /\ (pc = "finalize" /\ shouldExit)
          => (/\ pc' = "exited"
              /\ ~rec'.isRecording /\ ~rec'.deviceStarted
              /\ xcalls' = <<>> /\ text' = <<>>)
     /\ shouldExit' => pc' \in {"finalize", "exited"}
     /\ pc = "exited" => pc' = "exited"]_vars

\* C36 witness: the process has left the outer loop on the exit flag.
C36_Witness == pc = "exited" /\ shouldExit /\ ~xFailed

\* C37: every session that leaves the tick loop through a finishing key or
\* an abort is followed by the next gesture wait, whatever the outcome of
\* the transcription and whatever the other clipboard clients do.
C37_SessionReturnsToTrigger ==
  (pc = "finalize" /\ ~shouldExit)
    ~> (pc = "monitor" /\ m_running /\ state = 0 /\ xcalls = <<>>)

\* C37 witness: the trigger is awaited again after a session whose
\* transcription failed.
C37_Witness ==
  /\ pc = "monitor" /\ lastError = "transcribe" /\ m_running
  /\ state = 0 /\ xcalls = <<>>

\* the characters of the key presses in a queue of events, in order
RECURSIVE KeysIn(_)
KeysIn(q) ==
  IF q = <<>> THEN <<>>
  ELSE (IF Head(q).type = "KeyPress" /\ Len(Head(q).chars) = 1
          THEN <<Head(q).chars[1]>> ELSE <<>>) \o KeysIn(Tail(q))

IsPrefix(a, b) == Len(a) <= Len(b) /\ SubSeq(b, 1, Len(a)) = a

\* C38: a tick takes the first pending key event and acts on it; the key
\* events after it stay pending for later ticks.
C38_OneKeyPerTick ==
  [][(pc = "input" /\ KeysIn(pending) # <<>>)
       => (/\ key' = Head(KeysIn(pending))
           /\ IsPrefix(Tail(KeysIn(pending)), KeysIn(pending')))]_vars

\* C39: the colour of a tick is red in TimedOut; otherwise white when
\* paused, manually or automatically; otherwise red below 30 s remaining,
\* yellow below 60 s and white from 60 s on.
C39_StatusColour ==
  pc = "input"
    => color = IF isTimeout THEN "red"
               ELSE IF isPaused \/ isAutoPaused THEN "white"
               ELSE IF remainingFine < 30 * TicksPerSecond THEN "red"
               ELSE IF remainingFine < 60 * TicksPerSecond THEN "yellow"
               ELSE "white"

\* C39 witness: the warning colour half a second below one minute.
C39_Witness ==
  /\ pc = "input" /\ color = "yellow" /\ Mode = "Recording"
  /\ remainingFine = 60 * TicksPerSecond - 1 /\ secondsLeft = 59

\* C40: the capture thread writes frames only while the encoder is
\* initialised: the encoder is released only with the device down and no
\* callback running, the recording flag is set only with encoder and device
\* up, and a callback writes only after it has read the recording flag and
\* write-enable true.
C40_WritesOnlyWhileEncoderUp ==
  [][/\ cbPc' = "write" => rec'.encoderUp
     /\ cbPc = "write" => rec'.encoderUp
     /\ (rec.encoderUp /\ ~rec'.encoderUp)
          => (~rec.deviceUp /\ ~rec.deviceStarted /\ cbPc = "idle")
     /\ (~rec.isRecording /\ rec'.isRecording)
          => (rec.encoderUp /\ rec.deviceUp /\ rec.deviceStarted)
     /\ (cbPc' = "write" /\ cbPc # "write")
          => (cbPc = "checkWriting" /\ rec.isWriting)
     /\ (cbPc' = "checkWriting" /\ cbPc # "checkWriting")
          => (cbPc = "entered" /\ (rec.isRecording \/ racing))
     /\ (cbPc = "idle" /\ cbPc' # "idle") => rec.deviceStarted]_vars

\* C40 witness: the callback writes frames while start() is storing the
\* recording flag.
C40_Witness ==
  cbPc = "write" /\ racing /\ ~rec.isRecording /\ rec.encoderUp

====
